---- MODULE Spec2Model ----
(***************************************************************************)
(* SubCircuit / PySpyce: the netlist container (src/netlist.py), the       *)
(* legacy circuit container (src/circuit.py), the subcircuit definition    *)
(* (src/subcircuit/interfaces.py), the transient driver                    *)
(* (src/src/simulator.py), the start of diodes and switches                *)
(* (src/subcircuit/devices/d.py, s.py), table interpolation                *)
(* (src/subcircuit/stimuli.py, interfaces.py) and the current-node query   *)
(* of devices with a branch current (src/subcircuit/devices/l.py, s.py,    *)
(* e.py).                                                                  *)
(*                                                                         *)
(* Node keys are strings; the integer key 0 of the source is written "0".  *)
(* Solved values live on an integer grid whose unit is larger than the     *)
(* simulator's tolerance.  numpy.linalg.solve and the device stamps that   *)
(* feed it are outside the container: a solve either raises LinAlgError    *)
(* or returns some vector of the grid.                                     *)
(***************************************************************************)
EXTENDS Integers, Sequences, FiniteSets, TLC

\* ------------------------------------------------------------------ bounds
MaxNodes == 3
MaxItr == 2
MaxTstop == 1
MaxVal == 1
MaxEvals == 3
MaxRuns == 2
MaxAtoms == 2

\* --------------------------------------------------------------- constants
\* Simulator.tol = 0.001, floored to the integer grid of solved values.
Tol == 0

\* S.RON = 1.0E-6 and S.ROFF = 1.0E6, on a grid whose unit is S.RON (the off
\* resistance is kept larger than the on resistance, not to scale).
\* g = 1.0E12 of R.update for a zero resistance, kept large on the grid
GShort == 1000
RON == 1
\* _MAXITER = 1000, the cap on the cascade passes of the QDL scheduler, on the
\* scale of the model
MAXITER == 2
ROFF == 1000

\* ------------------------------------------------------------------- state
VARIABLES
    nodes,            \* Netlist.nodes: key -> node index
    nodenum,          \* Netlist.nodenum
    internalnum,      \* Netlist.internalnum
    ret,              \* the last registry call: operation, key, returned index
    internal_idx,     \* indices returned by create_internal so far
    first_idx,        \* key -> index returned by its first get_node_index
    devices,          \* Netlist.main_subckt.devices (aliased by Netlist.devices)
    subckts,          \* Netlist.subckts: definition name -> its devices
    subckt_instances, \* Netlist.subckt_instances after flatten
    circ_devices,     \* SubCircuit.devices of the legacy container
    reg,              \* the last device registration: container, name, result
    maxitr,           \* Simulator.maxitr
    across,           \* Netlist.across (<<>> while None)
    across_last,      \* Netlist.across_last
    across_history,   \* Netlist.across_history
    converged,        \* Netlist.converged
    success,          \* local success of Netlist.step / its return value
    k,                \* local k of Netlist.step
    solve_error,      \* la.solve raised LinAlgError in the current step
    cause,            \* why the last finished step ended
    pc,               \* position of the transient run
    n,                \* number of steps of the run
    i,                \* loop index of Simulator.trans
    tstep,            \* the run's step size
    t,                \* Simulator.t
    trans_time,       \* Simulator.trans_time
    trans_data,       \* Simulator.trans_data, one column per step
    aborted,          \* "Error solving circuit" was printed and the loop left
    failed_at,        \* first step whose Newton solve did not succeed, or -1
    flatten_error,    \* error raised by flatten, or "none"
    dangling,         \* X instances flattened without a registered definition
    flat_src,         \* main_subckt.devices as Netlist.flatten found them
    tmax,             \* Simulator.tmax: the tstop the run was given
    step_calls,       \* the Netlist.step calls of the run: time given, across left
    hooks,            \* calls made so far: flatten(), device start, device post_step
    parts,            \* the R, C and L devices: value, port2node, local jac and bequiv
    jac,              \* Netlist.jac, the global Jacobian (<<>> while None)
    bequiv,           \* Netlist.bequiv, the global b-equivalent (<<>> while None)
    stamped,          \* stamp() has run and no local array was written since
    models,           \* Netlist.models: model name -> Model.params
    dev,              \* a D or S device under construction and start
    evals,            \* the minor_step calls of the switch: control, state before, after
    table,            \* a Pwl stimulus or a Table: xp, yp, cursor
    query,            \* the last interpolation: the value asked, the value returned
    sensor,           \* an L, S or E device: nodes, port2node
    broadcast_to,     \* Atom.broadcast_to of each atom of the QDL system
    triggered,        \* Atom.triggered of each atom
    qpc,              \* where System.advance is: "idle", "cascade" or "returned"
    qi,               \* the pass counter i of System.advance
    cur               \* the last get_current_node call and what it returned

regvars == <<nodes, nodenum, internalnum, ret, internal_idx, first_idx>>
devvars == <<devices, subckts, subckt_instances, circ_devices, reg>>
stampvars == <<parts, jac, bequiv, stamped>>
simvars == <<maxitr, across, across_last, across_history, converged, success, k,
             solve_error, cause, pc, n, i, tstep, t, trans_time, trans_data,
             aborted, failed_at, flatten_error, dangling, flat_src, tmax,
             step_calls, hooks, parts, jac, bequiv, stamped>>
startvars == <<models, dev, evals>>
interpvars == <<table, query>>
sensevars == <<sensor, cur>>
unitvars == <<startvars, interpvars, sensevars>>
qdlvars == <<broadcast_to, triggered, qpc, qi>>
vars == <<regvars, devvars, simvars, unitvars, qdlvars>>

\* ----------------------------------------------------------- node registry
GroundKeys == {"0", "ground", "gnd"}

\* Names a netlist author may give a node (get_node_index accepts any key).
UserKeys == {"a", "internal0", "gnd"}

Range(f) == {f[x] : x \in DOMAIN f}

\* 'internal{0}'.format(internalnum - 1)
InternalKey(num) == "internal" \o ToString(num)

\* self.nodes[key] = index
Bind(map, key, index) ==
    [x \in (DOMAIN map) \cup {key} |-> IF x = key THEN index ELSE map[x]]

\* mutant: the membership test is missing, every call binds the key anew
NodesAfterGet_Rebind(map, num, key) == Bind(map, key, (num + 1) - 1)

\* Netlist.get_node_index: the registry after the call
NodesAfterGet(map, num, key) ==
    IF key \notin DOMAIN map THEN Bind(map, key, (num + 1) - 1) ELSE map

NodenumAfterGet(map, num, key) ==
    IF key \notin DOMAIN map THEN num + 1 ELSE num

\* Netlist.create_internal: the registry after the call
NodesAfterInternal(map, num, inum) ==
    Bind(map, InternalKey((inum + 1) - 1), (num + 1) - 1)

GetNodeIndex(key) ==
    /\ pc = "build"
    /\ NodenumAfterGet(nodes, nodenum, key) <= MaxNodes
    /\ nodes' = NodesAfterGet(nodes, nodenum, key)
    /\ nodenum' = NodenumAfterGet(nodes, nodenum, key)
    /\ ret' = [op |-> "get_node_index", key |-> key, val |-> nodes'[key],
               fresh |-> nodes'[key] \notin Range(nodes),
               collided |-> FALSE]
    /\ first_idx' = IF key \in DOMAIN first_idx THEN first_idx
                    ELSE Bind(first_idx, key, nodes'[key])
    /\ UNCHANGED <<internalnum, internal_idx, devvars, simvars, unitvars, qdlvars>>

CreateInternal ==
    /\ pc = "build"
    /\ nodenum + 1 <= MaxNodes
    /\ nodenum' = nodenum + 1
    /\ internalnum' = internalnum + 1
    /\ nodes' = NodesAfterInternal(nodes, nodenum, internalnum)
    /\ ret' = [op |-> "create_internal", key |-> InternalKey(internalnum' - 1),
               val |-> nodenum' - 1,
               fresh |-> (nodenum' - 1) \notin Range(nodes),
               collided |-> InternalKey(internalnum' - 1) \in DOMAIN nodes]
    /\ internal_idx' = internal_idx \cup {nodenum' - 1}
    /\ UNCHANGED <<first_idx, devvars, simvars, unitvars, qdlvars>>

\* --------------------------------------------------------- device registry
\* The container Netlist.main_subckt ("main") and the definitions are Subckt
\* objects; a device object is [kind, subckt, name, defn, nodes], where defn
\* keeps the definition name the X constructor was given (X.__init__ stores it
\* in self.subckt, which Subckt.device then overwrites with the container) and
\* nodes are the node references the constructor was given.
MainSubckt == "main"

R(nodes_) == [kind |-> "R", subckt |-> "none", name |-> "none", defn |-> "none",
              nodes |-> nodes_]

X(nodes_, sub) == [kind |-> "X", subckt |-> sub, name |-> "none", defn |-> sub,
                   nodes |-> nodes_]

\* Registrations a netlist author makes: name and the device constructed for it.
DeviceInputs ==
    {<<"R1", R(<<"a", "b">>)>>, <<"X1", X(<<"a">>, "rdiv")>>,
     <<"X1", X(<<"a">>, "nodef")>>}

\* a second instance of the same definition
InstanceInputs == {<<"X2", X(<<"a">>, "rdiv")>>}

SubcktNames == {"rdiv"}

\* Subckt(ports): the external port names a definition declares
SubcktPorts(sname) == <<"p">>

\* devices of a definition: RA joins the port to a node internal to the definition
DefDeviceInputs == {<<"RA", R(<<"p", "m">>)>>}

\* Subckt.device: the container's devices after the call
DevicesAfterDevice(devs, name, device, owner) ==
    IF name \notin DOMAIN devs
    THEN Bind(devs, name, [device EXCEPT !.name = name, !.subckt = owner])
    ELSE devs

\* Subckt.device: the returned value
ResultOfDevice(devs, name) ==
    IF name \notin DOMAIN devs THEN "True" ELSE "False"

\* SubCircuit.add: the container's devices after the call (device.map_nodes()
\* is the device's own hook and runs only for a new name)
DevicesAfterAdd(devs, name, device) ==
    IF name \notin DOMAIN devs
    THEN Bind(devs, name, [device EXCEPT !.name = name, !.subckt = "circuit"])
    ELSE devs

\* SubCircuit.add has no return statement
ResultOfAdd(devs, name) == "None"

\* Netlist.device -> main_subckt.device
Device(name, device) ==
    /\ pc = "build"
    /\ devices' = DevicesAfterDevice(devices, name, device, MainSubckt)
    /\ reg' = [container |-> "netlist", name |-> name,
               dup |-> name \in DOMAIN devices,
               result |-> ResultOfDevice(devices, name),
               changed |-> devices' # devices]
    /\ UNCHANGED <<subckts, subckt_instances, circ_devices, regvars, simvars, unitvars, qdlvars>>

\* SubCircuit.add of the legacy container
Add(name, device) ==
    /\ pc = "build"
    /\ circ_devices' = DevicesAfterAdd(circ_devices, name, device)
    /\ reg' = [container |-> "circuit", name |-> name,
               dup |-> name \in DOMAIN circ_devices,
               result |-> ResultOfAdd(circ_devices, name),
               changed |-> circ_devices' # circ_devices]
    /\ UNCHANGED <<devices, subckts, subckt_instances, regvars, simvars, unitvars, qdlvars>>

\* Netlist.subckt(name, Subckt(ports)): registers a definition without devices
Subckt(name) ==
    /\ pc = "build"
    /\ subckts' = Bind(subckts, name, <<>>)
    /\ UNCHANGED <<devices, subckt_instances, circ_devices, reg, regvars, simvars, unitvars, qdlvars>>

\* Subckt.device on a registered definition (rdiv.device('RA', ...))
DefDevice(sname, name, device) ==
    /\ pc = "build"
    /\ sname \in DOMAIN subckts
    /\ subckts' = [subckts EXCEPT
                     ![sname] = DevicesAfterDevice(subckts[sname], name, device, sname)]
    /\ reg' = [container |-> sname, name |-> name,
               dup |-> name \in DOMAIN subckts[sname],
               result |-> ResultOfDevice(subckts[sname], name),
               changed |-> subckts' # subckts]
    /\ UNCHANGED <<devices, subckt_instances, circ_devices, regvars, simvars, unitvars, qdlvars>>

\* ------------------------------------------------------------------ flatten
\* "{0}_{1}".format(subckt_name, device_name)
Mangle(sname, dname) == sname \o "_" \o dname

\* isinstance(device, X)
IsX(device) == device.kind = "X"

Restrict(f, S) == [x \in S |-> f[x]]

\* first loop of Netlist.flatten: the instances taken out of the device list
FlattenInstances(devs) ==
    [x \in {y \in DOMAIN devs : IsX(devs[y])} |-> devs[x].subckt]

FlattenStrip(devs) == Restrict(devs, {y \in DOMAIN devs : ~IsX(devs[y])})

\* subckt_instance.devices: Netlist.devices is main_subckt.devices itself
ContainerDevices(c, devs) == IF c = MainSubckt THEN devs ELSE subckts[c]

\* inner loop of Netlist.flatten for one instance: every device of the
\* instance's container is stored again under its mangled name, and the object
\* is renamed.  Objects are told apart by defn/kind and the name they had; an
\* object stored under several keys keeps the name of the key visited last,
\* and dict order decides which: `last` picks it.
FlattenOne(devs, sname, src, last) ==
    LET new == {Mangle(sname, d) : d \in DOMAIN src}
        orig(x) == CHOOSE d \in DOMAIN src : Mangle(sname, d) = x
        renamed(d) == [src[d] EXCEPT !.name = Mangle(sname, last[src[d].name])]
    IN  [x \in (DOMAIN devs) \cup new |->
            IF x \in new THEN renamed(orig(x))
            ELSE IF \E d \in DOMAIN src : src[d].name = devs[x].name
                 THEN [devs[x] EXCEPT !.name = Mangle(sname, last[devs[x].name])]
                 ELSE devs[x]]

\* the keys of src that hold the object currently named nm
KeysOf(src, nm) == {d \in DOMAIN src : src[d].name = nm}

LastChoices(src) ==
    {f \in [{src[d].name : d \in DOMAIN src} -> DOMAIN src] :
        \A nm \in DOMAIN f : f[nm] \in KeysOf(src, nm)}

RECURSIVE FlattenAll(_, _, _)
\* second loop of Netlist.flatten, in any dict order of the instances
FlattenAll(devs, inst, remaining) ==
    IF remaining = {} THEN {devs}
    ELSE UNION {
           UNION { FlattenAll(FlattenOne(devs, s, ContainerDevices(inst[s], devs), last),
                              inst, remaining \ {s})
                   : last \in LastChoices(ContainerDevices(inst[s], devs)) }
           : s \in remaining }

\* Netlist.flatten: the possible device lists after the call
Flatten(devs) ==
    FlattenAll(FlattenStrip(devs), FlattenInstances(devs),
               DOMAIN FlattenInstances(devs))

\* the error Netlist.flatten raises, if any: it reads device.subckt.devices
\* and never consults Netlist.subckts
FlattenError(devs) ==
    IF \A x \in DOMAIN FlattenInstances(devs) :
          FlattenInstances(devs)[x] \in {MainSubckt} \cup DOMAIN subckts
    THEN "none" ELSE "AttributeError"

\* X instances of the netlist whose definition name is not registered
Dangling(devs) ==
    {x \in DOMAIN devs : IsX(devs[x]) /\ devs[x].defn \notin DOMAIN subckts}

\* ---------------------------------------------------------- newton solver
Vals == 0..MaxVal

Abs(x) == IF x < 0 THEN -x ELSE x

\* numpy.zeros(nodenum)
Zeros(nn) == [j \in 0..(nn - 1) |-> 0]

\* la.solve(jac[1:, 1:], bequiv[1:]): LinAlgError, or a vector x whose entry
\* x[j] (x[j - 1] in the source) is the value for node j
SolveOutcomes(nn) ==
    {[ok |-> FALSE, x |-> <<>>]} \cup
    {[ok |-> TRUE, x |-> v] : v \in [1..(nn - 1) -> Vals]}

\* mutant: the slice is off by one (across[:-1] = ...), so index 0 is written
AcrossAfterSolve_Shifted(acr, out) ==
    IF out.ok
    THEN [j \in DOMAIN acr |-> IF (j + 1) \in DOMAIN out.x THEN out.x[j + 1] ELSE acr[j]]
    ELSE acr

\* self.across[1:] = la.solve(...): across after the try block
AcrossAfterSolve(acr, out) ==
    IF out.ok THEN [j \in DOMAIN acr |-> IF j >= 1 THEN out.x[j] ELSE acr[j]]
    ELSE acr

\* the success flag of Netlist.minor_step
MinorStepSuccess(out) == out.ok

\* the convergence check of Netlist.minor_step
ConvergedAfter(last, acr, conv, ok) ==
    IF ok THEN \A j \in DOMAIN acr : ~(Abs(acr[j] - last[j]) > Tol)
    ELSE conv

\* mutant: the iteration cap is missing
NewtonLoopRuns_NoCap(s, kk, conv) == s /\ ~conv

\* mutant: the `if not success: break` is missing
NewtonLoopRuns_NoBreak(s, kk, conv) == kk < maxitr /\ ~conv

\* Netlist.step: the loop runs another iteration (`break` follows a failure)
NewtonLoopRuns(s, kk, conv) == s /\ kk < maxitr /\ ~conv

\* mutant: the step folds non-convergence into the same False it returns for
\* a failed solve
StepReturn_FalseAtCap(s, conv) == s /\ conv

\* Netlist.step: return success
StepReturn(s, conv) == s

\* Simulator.trans: if not success: ... break
TransBreaks(s) == ~s

\* mutant: the + 1 is missing
NumSteps_NoPlusOne(ts, tstop) == tstop \div ts

\* int(tstop / tstep) + 1
NumSteps(ts, tstop) == (tstop \div ts) + 1

\* Netlist.trans: flatten(), then Simulator.trans up to its loop
\* -------------------------------------------------------- stamp assembler
\* A part is [kind, value, res, nodes, port2node, jac, bequiv, started]: an R,
\* C or L device with its local Jacobian (a function of port pairs) and local
\* b-equivalent (a function of ports). Conductances are whole numbers on the
\* grid of values and timesteps the model draws from.

\* port2=None of get_across_history
NoPort == 0 - 1

\* numpy.zeros((nn, nn))
ZeroMatrix(nn) == [c \in (0..(nn - 1)) \X (0..(nn - 1)) |-> 0]

\* R.update: g = 1.0 / self.value, or the short-circuit conductance
Conductance(value) == IF value # 0 THEN 1 \div value ELSE GShort

\* mutant: the off-diagonal entries of the resistor and the second coupling
\* entry of the inductor have the wrong sign
JacAfterStart_SignSlip(p, dt) ==
    IF p.kind = "R"
    THEN [p.jac EXCEPT ![<<0, 0>>] = Conductance(p.value),
                       ![<<0, 1>>] = Conductance(p.value),
                       ![<<1, 0>>] = Conductance(p.value),
                       ![<<1, 1>>] = Conductance(p.value)]
    ELSE IF p.kind = "C"
    THEN [p.jac EXCEPT ![<<0, 0>>] = p.value \div dt,
                       ![<<0, 1>>] = 0 - (p.value \div dt),
                       ![<<1, 0>>] = 0 - (p.value \div dt),
                       ![<<1, 1>>] = p.value \div dt]
    ELSE [p.jac EXCEPT ![<<0, 2>>] = 1,
                       ![<<1, 2>>] = 1,
                       ![<<2, 0>>] = 1,
                       ![<<2, 1>>] = 0 - 1,
                       ![<<2, 2>>] = 0 - (p.res + (p.value \div dt))]

\* R.start (R.update), C.start, L.start: the local Jacobian after the call
JacAfterStart(p, dt) ==
    IF p.kind = "R"
    THEN [p.jac EXCEPT ![<<0, 0>>] = Conductance(p.value),
                       ![<<0, 1>>] = 0 - Conductance(p.value),
                       ![<<1, 0>>] = 0 - Conductance(p.value),
                       ![<<1, 1>>] = Conductance(p.value)]
    ELSE IF p.kind = "C"
    THEN [p.jac EXCEPT ![<<0, 0>>] = p.value \div dt,
                       ![<<0, 1>>] = 0 - (p.value \div dt),
                       ![<<1, 0>>] = 0 - (p.value \div dt),
                       ![<<1, 1>>] = p.value \div dt]
    ELSE [p.jac EXCEPT ![<<0, 2>>] = 1,
                       ![<<1, 2>>] = 0 - 1,
                       ![<<2, 0>>] = 1,
                       ![<<2, 1>>] = 0 - 1,
                       ![<<2, 2>>] = 0 - (p.res + (p.value \div dt))]

\* device.start(dt)
Started(p, dt) == [p EXCEPT !.jac = JacAfterStart(p, dt), !.started = TRUE]

\* `if port2:` of get_across_history: None and port 0 are both false
PortGiven(port) == port # NoPort /\ port # 0

\* Device.get_across_history(port1, port2): the value returned
GetAcrossHistory(h, p, port1, port2) ==
    IF PortGiven(port2)
    THEN h[p.port2node[port1]] - h[p.port2node[port2]]
    ELSE h[p.port2node[port1]]

\* mutant: across is a view of the array, so `across -= ...` writes into it
HistoryAfterGet_InPlace(h, p, port1, port2) ==
    IF PortGiven(port2)
    THEN [h EXCEPT ![p.port2node[port1]] = @ - h[p.port2node[port2]]]
    ELSE h

\* Device.get_across_history: netlist.across_history after the call. across is
\* a scalar taken out of the array, `across -= ...` rebinds the local name.
HistoryAfterGet(h, p, port1, port2) == h

\* C.step and L.step: the local b-equivalent after the call (R.step: pass)
BequivAfterStep(p, dt, h) ==
    IF p.kind = "C"
    THEN [p.bequiv EXCEPT
             ![0] = (p.value \div dt) * GetAcrossHistory(h, p, 0, 1),
             ![1] = (0 - (p.value \div dt)) * GetAcrossHistory(h, p, 0, 1)]
    ELSE IF p.kind = "L"
    THEN [p.bequiv EXCEPT
             ![2] = (0 - (p.value \div dt)) * GetAcrossHistory(h, p, 2, NoPort)]
    ELSE p.bequiv

\* netlist.across_history after device.step(dt, t)
HistoryAfterStep(p, h) ==
    IF p.kind = "C" THEN HistoryAfterGet(h, p, 0, 1)
    ELSE IF p.kind = "L" THEN HistoryAfterGet(h, p, 2, NoPort)
    ELSE h

RECURSIVE StampPairs(_, _, _)
\* the two loops over device.nodes.items(): jac[ni, nj] += device.jac[pi, pj]
StampPairs(J, p, pairs) ==
    IF pairs = {} THEN J
    ELSE LET c == CHOOSE x \in pairs : TRUE
         IN  StampPairs([J EXCEPT ![<<p.port2node[c[1]], p.port2node[c[2]]>>] =
                                      @ + p.jac[c]],
                        p, pairs \ {c})

RECURSIVE StampPorts(_, _, _)
\* the loop over device.nodes.items(): bequiv[ni] += device.bequiv[pi]
StampPorts(B, p, ports) ==
    IF ports = {} THEN B
    ELSE LET pi == CHOOSE x \in ports : TRUE
         IN  StampPorts([B EXCEPT ![p.port2node[pi]] = @ + p.bequiv[pi]],
                        p, ports \ {pi})

RECURSIVE StampJac(_, _, _)
\* the loop over the devices, for the Jacobian
StampJac(J, ps, names) ==
    IF names = {} THEN J
    ELSE LET nm == CHOOSE x \in names : TRUE
         IN  StampJac(StampPairs(J, ps[nm], DOMAIN ps[nm].jac), ps, names \ {nm})

RECURSIVE StampBequiv(_, _, _)
\* the loop over the devices, for the b-equivalent
StampBequiv(B, ps, names) ==
    IF names = {} THEN B
    ELSE LET nm == CHOOSE x \in names : TRUE
         IN  StampBequiv(StampPorts(B, ps[nm], DOMAIN ps[nm].bequiv), ps,
                         names \ {nm})

\* mutant: the global arrays are not zeroed before the devices are added
Zeroed_Keep(A) == A

\* self.jac[:, :] = 0.0 and self.bequiv[:] = 0.0
Zeroed(A) == [c \in DOMAIN A |-> 0]

\* Netlist.stamp: the global Jacobian after the call
JacAfterStamp(J, ps) == StampJac(Zeroed(J), ps, DOMAIN ps)

\* Netlist.stamp: the global b-equivalent after the call
BequivAfterStamp(B, ps) == StampBequiv(Zeroed(B), ps, DOMAIN ps)

\* Netlist.trans: self.flatten(), then Simulator.trans up to its loop
\* (Netlist.setup dimensions the arrays and starts every device)
TransCall(ts, tstop) ==
    /\ devices' \in Flatten(devices)
    /\ subckt_instances' = FlattenInstances(devices)
    /\ flatten_error' = FlattenError(devices)
    /\ dangling' = Dangling(devices)
    /\ flat_src' = devices
    /\ tmax' = tstop
    /\ step_calls' = <<>>
    /\ n' = NumSteps(ts, tstop)
    /\ across' = Zeros(nodenum)
    /\ across_last' = Zeros(nodenum)
    /\ across_history' = Zeros(nodenum)
    /\ trans_data' = [j \in 0..(n' - 1) |-> Zeros(nodenum)]
    /\ trans_time' = [j \in 0..(n' - 1) |-> 0]
    /\ tstep' = ts
    /\ t' = 0
    /\ i' = 0
    /\ IF flatten_error' = "none"
       THEN /\ parts' = [nm \in DOMAIN parts |-> Started(parts[nm], ts)]
            /\ jac' = JacAfterStamp(ZeroMatrix(nodenum), parts')
            /\ bequiv' = BequivAfterStamp(Zeros(nodenum), parts')
            /\ stamped' = TRUE
       ELSE UNCHANGED stampvars
    /\ hooks' = [hooks EXCEPT
                    !.flatten = @ + 1,
                    !.start = IF flatten_error' = "none"
                              THEN @ + Cardinality(DOMAIN devices') ELSE @]
    /\ pc' = IF flatten_error' = "none" THEN "loop" ELSE "error"
    /\ UNCHANGED <<maxitr, converged, success, k, solve_error, cause, aborted,
                   failed_at, subckts, circ_devices, reg, regvars, unitvars, qdlvars>>

\* the first netlist.trans(tstep, tstop) of a netlist
Trans(ts, tstop) ==
    /\ pc = "build"
    /\ TransCall(ts, tstop)

\* a further netlist.trans(tstep, tstop) on the same netlist, once the
\* previous call has returned
TransAgain(ts, tstop) ==
    /\ pc \in {"done", "error"}
    /\ hooks.flatten < MaxRuns
    /\ TransCall(ts, tstop)

\* device.step(dt, t) of one R, C or L device between two Newton solves
PartStep(name) ==
    /\ pc = "loop"
    /\ name \in DOMAIN parts
    /\ parts' = [parts EXCEPT
                    ![name].bequiv = BequivAfterStep(parts[name], tstep,
                                                     across_history)]
    /\ across_history' = HistoryAfterStep(parts[name], across_history)
    /\ stamped' = (stamped /\ parts' = parts)
    /\ UNCHANGED <<maxitr, across, across_last, converged, success, k,
                   solve_error, cause, pc, n, i, tstep, t, trans_time,
                   trans_data, aborted, failed_at, flatten_error, dangling,
                   flat_src, tmax, step_calls, hooks, jac, bequiv, devvars,
                   regvars, unitvars, qdlvars>>

\* netlist.stamp()
Stamp ==
    /\ pc = "loop"
    /\ jac' = JacAfterStamp(jac, parts)
    /\ bequiv' = BequivAfterStamp(bequiv, parts)
    /\ stamped' = TRUE
    /\ UNCHANGED <<maxitr, across, across_last, across_history, converged,
                   success, k, solve_error, cause, pc, n, i, tstep, t,
                   trans_time, trans_data, aborted, failed_at, flatten_error,
                   dangling, flat_src, tmax, step_calls, hooks, parts, devvars,
                   regvars, unitvars, qdlvars>>

\* Simulator.trans loop body up to the call, and the head of Netlist.step
StepBegin ==
    /\ pc = "loop"
    /\ success' = TRUE
    /\ k' = 0
    /\ converged' = FALSE
    /\ solve_error' = FALSE
    /\ pc' = "newton"
    /\ UNCHANGED <<maxitr, across, across_last, across_history, cause, n, i,
                   tstep, t, trans_time, trans_data, aborted, failed_at,
                   flatten_error, dangling, flat_src, tmax, step_calls, hooks,
                   stampvars, devvars, regvars, unitvars, qdlvars>>

\* one pass of the while loop of Netlist.step: Netlist.minor_step and k += 1
MinorStep ==
    /\ pc = "newton"
    /\ NewtonLoopRuns(success, k, converged)
    /\ \E out \in SolveOutcomes(nodenum) :
          /\ across' = AcrossAfterSolve(across, out)
          /\ success' = MinorStepSuccess(out)
          /\ converged' = ConvergedAfter(across_last, across', converged, success')
          /\ solve_error' = (solve_error \/ ~out.ok)
    /\ across_last' = across'
    /\ k' = IF success' THEN k + 1 ELSE k
    /\ jac' = JacAfterStamp(jac, parts)
    /\ bequiv' = BequivAfterStamp(bequiv, parts)
    /\ stamped' = TRUE
    /\ UNCHANGED <<maxitr, across_history, cause, pc, n, i, tstep, t, trans_time,
                   trans_data, aborted, failed_at, flatten_error, dangling,
                   flat_src, tmax, step_calls, hooks, parts, devvars, regvars, unitvars,
                   qdlvars>>

\* the tail of Netlist.step after the loop
StepEnd ==
    /\ pc = "newton"
    /\ ~NewtonLoopRuns(success, k, converged)
    /\ across_last' = across
    /\ across_history' = across
    /\ success' = StepReturn(success, converged)
    /\ cause' = IF solve_error THEN "linalg"
                ELSE IF ~converged THEN "cap" ELSE "none"
    /\ failed_at' = IF failed_at = -1 /\ (solve_error \/ ~converged)
                    THEN i ELSE failed_at
    /\ step_calls' = Append(step_calls, [t |-> t, across |-> across])
    /\ pc' = "stepret"
    /\ UNCHANGED <<maxitr, across, converged, k, solve_error, n, i, tstep, t,
                   trans_time, trans_data, aborted, flatten_error, dangling,
                   flat_src, tmax, hooks, stampvars, devvars, regvars, unitvars,
                   qdlvars>>

\* Simulator.trans loop body after the call
AfterStep ==
    /\ pc = "stepret"
    /\ \/ /\ TransBreaks(success)
          /\ aborted' = TRUE
          /\ pc' = "done"
          /\ UNCHANGED <<t, trans_time, trans_data, i>>
       \/ /\ ~TransBreaks(success)
          /\ t' = t + tstep
          /\ trans_time' = [trans_time EXCEPT ![i] = i * tstep]
          /\ trans_data' = [trans_data EXCEPT ![i] = across]
          /\ i' = i + 1
          /\ pc' = IF i + 1 < n THEN "loop" ELSE "done"
          /\ UNCHANGED aborted
    /\ UNCHANGED <<maxitr, across, across_last, across_history, converged, success,
                   k, solve_error, cause, n, tstep, failed_at, flatten_error,
                   dangling, flat_src, tmax, step_calls, hooks, stampvars, devvars,
                   regvars, unitvars, qdlvars>>

\* ------------------------------------------------------------ QDL scheduler
\* System.atoms, in list order
QAtoms == 1..MaxAtoms

\* whether each atom's quantized output changes when it is updated
Changes == [QAtoms -> BOOLEAN]

\* Atom.update: self.triggered = False, and Atom.broadcast when q != q0
FlagsAfterUpdate(flags, a, changed) ==
    [b \in DOMAIN flags |->
        IF changed /\ b \in broadcast_to[a] /\ b # a THEN TRUE
        ELSE IF b = a THEN FALSE ELSE flags[b]]

RECURSIVE FlagsAfterDue(_, _, _, _)
\* the first loop of System.advance over atoms a..: the due atoms are updated
FlagsAfterDue(flags, a, due, ch) ==
    IF a > MaxAtoms THEN flags
    ELSE FlagsAfterDue(IF a \in due THEN FlagsAfterUpdate(flags, a, ch[a])
                       ELSE flags,
                       a + 1, due, ch)

RECURSIVE FlagsAfterPass(_, _, _)
\* one pass of the while loop over atoms a..: the triggered atoms are updated
FlagsAfterPass(flags, a, ch) ==
    IF a > MaxAtoms THEN flags
    ELSE FlagsAfterPass(IF flags[a] THEN FlagsAfterUpdate(flags, a, ch[a])
                        ELSE flags,
                        a + 1, ch)

RECURSIVE SeenInPass(_, _, _)
\* the local `triggered` of a pass: some atom was found triggered
SeenInPass(flags, a, ch) ==
    IF a > MaxAtoms THEN FALSE
    ELSE flags[a] \/
         SeenInPass(IF flags[a] THEN FlagsAfterUpdate(flags, a, ch[a]) ELSE flags,
                    a + 1, ch)

\* Connection(atom, other): other.broadcast_to.append(atom)
AddConnection(atom, other) ==
    /\ qpc # "cascade"
    /\ broadcast_to' = [broadcast_to EXCEPT ![other] = @ \cup {atom}]
    /\ UNCHANGED <<triggered, qpc, qi, regvars, devvars, simvars, unitvars>>

\* System.advance up to its while loop: the atoms due at the new time are
\* updated (at least the atom whose tnext is the minimum is due)
AdvanceBegin(due, ch) ==
    /\ qpc # "cascade"
    /\ due # {}
    /\ triggered' = FlagsAfterDue(triggered, 1, due, ch)
    /\ qi' = 0
    /\ qpc' = "cascade"
    /\ UNCHANGED <<broadcast_to, regvars, devvars, simvars, unitvars>>

\* one iteration of `while i < _MAXITER`; a pass that finds no triggered
\* atom breaks and advance returns
CascadePass(ch) ==
    /\ qpc = "cascade"
    /\ qi < MAXITER
    /\ triggered' = FlagsAfterPass(triggered, 1, ch)
    /\ IF SeenInPass(triggered, 1, ch)
       THEN qi' = qi + 1 /\ qpc' = "cascade"
       ELSE qi' = qi /\ qpc' = "returned"
    /\ UNCHANGED <<broadcast_to, regvars, devvars, simvars, unitvars>>

\* the while condition fails at i = _MAXITER and advance returns
AdvanceReturn ==
    /\ qpc = "cascade"
    /\ ~(qi < MAXITER)
    /\ qpc' = "returned"
    /\ UNCHANGED <<broadcast_to, triggered, qi, regvars, devvars, simvars,
                   unitvars>>

\* ------------------------------------------------------------ device start
\* A device object is [kind, mname, model, parameters, attrs, error, on, state,
\* jac44]: model is what self.model holds ([type |-> "None"], a model name, or
\* a Model object with its params), attrs are the working parameters kept in
\* __dict__, on and state are the switch's configured and present state and
\* jac44 is the switch's self.jac[4, 4].
NoDevice ==
    [kind |-> "none", mname |-> "none", model |-> [type |-> "None"],
     parameters |-> <<>>, attrs |-> <<>>, started |-> FALSE, error |-> "none",
     on |-> FALSE, state |-> FALSE, jac44 |-> 0]

ModelNames == {"MOD1"}

\* parameter keys a model card or an instance keyword may carry ("zz" is no
\* attribute of any device)
ParamKeys == {"vt", "n", "zz"}

\* Model(name, **kwargs): self.params = kwargs
ModelParamInputs == UNION {[K -> {2}] : K \in SUBSET ParamKeys}

\* the params of a switch model
SwitchParamInputs == UNION {[K -> {2}] : K \in SUBSET {"vt", "ron"}}

\* the **parameters of a device constructor
KeywordInputs == UNION {[K -> {3}] : K \in SUBSET {"vt", "n"}}

\* D.__init__: default model parameters (is_, rs, ... abbreviated to n, tt)
DDefaults == [n |-> 1, tt |-> 0]

\* S.__init__: model params (vt, vh, ron, roff; it and ih are not read)
SDefaults == [vt |-> 0, vh |-> 0, ron |-> RON, roff |-> ROFF]

NoneModel == [type |-> "None"]
NameModel(mname) == [type |-> "name", name |-> mname]
ObjectModel(params) == [type |-> "Model", params |-> params]

\* a value is true in `if self.model:` unless it is None or an empty string
Truthy(model) == model.type # "None"

\* for key in src: if key in self.__dict__: self.__dict__[key] = src[key]
Overlay(attrs, src) ==
    [key \in DOMAIN attrs |-> IF key \in DOMAIN src THEN src[key] ELSE attrs[key]]

\* D.start / S.start: self.model.params of a string raises AttributeError
StartError(d) ==
    IF Truthy(d.model) /\ d.model.type = "name" THEN "AttributeError" ELSE "none"

\* D.start / S.start: the working parameters after the call
AttrsAfterStart(d) ==
    IF StartError(d) # "none" THEN d.attrs
    ELSE Overlay(IF Truthy(d.model) THEN Overlay(d.attrs, d.model.params)
                 ELSE d.attrs,
                 d.parameters)

\* MNADevice.get_model
GetModel(mname) ==
    IF mname \in DOMAIN models THEN ObjectModel(models[mname]) ELSE NoneModel

\* Netlist.model(name, Model(name, **params))
Model(name, params) ==
    /\ models' = Bind(models, name, params)
    /\ UNCHANGED <<dev, evals, regvars, devvars, simvars, interpvars, sensevars,
                   qdlvars>>

\* D(nodes, model=mname, **kw): the name goes to self.mname, self.model = None
NewD(mname, kw) ==
    /\ dev' = [kind |-> "D", mname |-> mname, model |-> NoneModel,
               parameters |-> kw, attrs |-> DDefaults, started |-> FALSE,
               error |-> "none", on |-> FALSE, state |-> FALSE, jac44 |-> 0]
    /\ evals' = <<>>
    /\ UNCHANGED <<models, regvars, devvars, simvars, interpvars, sensevars,
                   qdlvars>>

\* S(nodes, model=m, on=on, **kw): self.model = m, where m is a model name (as
\* the docstring asks) or what get_model returned for a name; self.state = on
NewS(mname, byname, on, kw) ==
    /\ dev' = [kind |-> "S", mname |-> mname,
               model |-> IF byname THEN NameModel(mname) ELSE GetModel(mname),
               parameters |-> kw, attrs |-> SDefaults, started |-> FALSE,
               error |-> "none", on |-> on, state |-> on, jac44 |-> 0]
    /\ evals' = <<>>
    /\ UNCHANGED <<models, regvars, devvars, simvars, interpvars, sensevars,
                   qdlvars>>

\* S.start: self.state = self.on (the statement is not reached when the
\* parameter transfer raised)
StateAfterStart(d) ==
    IF d.kind = "S" /\ StartError(d) = "none" THEN d.on ELSE d.state

\* S.start: self.jac[4, 4] = -self.ron if self.state else -self.roff
Jac44AfterStart(d) ==
    IF d.kind = "S" /\ StartError(d) = "none"
    THEN IF StateAfterStart(d) THEN 0 - AttrsAfterStart(d).ron
         ELSE 0 - AttrsAfterStart(d).roff
    ELSE d.jac44

\* device.start(dt)
Start ==
    /\ dev.kind # "none"
    /\ ~dev.started
    /\ dev' = [dev EXCEPT !.attrs = AttrsAfterStart(dev),
                          !.error = StartError(dev),
                          !.state = StateAfterStart(dev),
                          !.jac44 = Jac44AfterStart(dev),
                          !.started = TRUE]
    /\ UNCHANGED <<models, evals, regvars, devvars, simvars, interpvars, sensevars,
                   qdlvars>>

\* the control signals a switch may be shown (get_across of its control
\* nodes or of its controlling source)
Controls == 1..4

\* mutant: the threshold itself does not switch on (> for >=)
StateAfterMinor_Strict(state, control, vt) ==
    IF control > vt THEN TRUE
    ELSE IF control < vt THEN FALSE
    ELSE state

\* mutant: an ON switch shown a control at or above the threshold goes OFF
StateAfterMinor_Toggle(state, control, vt) ==
    IF control >= vt THEN ~state
    ELSE IF control < vt THEN FALSE
    ELSE state

\* S.minor_step: self.state after the threshold test
StateAfterMinor(state, control, vt) ==
    IF control >= vt THEN (IF ~state THEN TRUE ELSE state)
    ELSE IF control < vt THEN (IF state THEN FALSE ELSE state)
    ELSE state

\* mutant: the transition leaves the Jacobian entry as it was
Jac44AfterMinor_Stale(d, control) == d.jac44

\* S.minor_step: self.jac[4, 4], rewritten only when the state changes
Jac44AfterMinor(d, control) ==
    IF control >= d.attrs.vt
    THEN (IF ~d.state THEN 0 - d.attrs.ron ELSE d.jac44)
    ELSE IF control < d.attrs.vt
         THEN (IF d.state THEN 0 - d.attrs.roff ELSE d.jac44)
         ELSE d.jac44

\* S.minor_step with the control signal it reads (bequiv[4], written from
\* get_across afterwards, feeds neither the state nor the Jacobian)
SMinorStep(control) ==
    /\ dev.kind = "S"
    /\ dev.started
    /\ dev.error = "none"
    /\ Len(evals) < MaxEvals
    /\ dev' = [dev EXCEPT !.state = StateAfterMinor(dev.state, control, dev.attrs.vt),
                          !.jac44 = Jac44AfterMinor(dev, control)]
    /\ evals' = Append(evals, [control |-> control, before |-> dev.state,
                               after |-> dev'.state])
    /\ UNCHANGED <<models, regvars, devvars, simvars, interpvars, sensevars,
                   qdlvars>>

\* ------------------------------------------------------------ interpolation
\* A Pwl stimulus or a Table is [kind, xp, yp, cursor]; xp and yp are Python
\* lists, read here with the source's 0-based index.  Pwl keeps no cursor.
NoTable == [kind |-> "none", xp |-> <<>>, yp |-> <<>>, cursor |-> 0]

At(list, j) == list[j + 1]

\* list[-1]
Last(list) == list[Len(list)]

\* breakpoint lists a netlist author may give: increasing abscissas
XpInputs == {<<0, 2, 4>>, <<0, 2, 4, 6>>}

YpInputs(xp) == [1..Len(xp) -> {0, 2, 4}]

\* values asked of the interpolation
Queries == (0 - 1)..7

RECURSIVE Scan(_, _, _)
\* while x > self.xp[i] and i < (len(self.xp) - 1): i += 1
Scan(xp, x, j) ==
    IF x > At(xp, j) /\ j < (Len(xp) - 1) THEN Scan(xp, x, j + 1) ELSE j

\* y0 + (y1 - y0) * (x - x0) / (x1 - x0) on the segment ending at index j
\* (the inputs keep the quotient exact)
Segment(xp, yp, j, x) ==
    At(yp, j - 1)
      + ((At(yp, j) - At(yp, j - 1)) * (x - At(xp, j - 1)))
            \div (At(xp, j) - At(xp, j - 1))

\* the index the scan of _interp_ starts from: 1 in Pwl, self.cursor in Table
ScanStart(tb) == IF tb.kind = "Pwl" THEN 1 ELSE tb.cursor

\* Pwl._interp_ / Table._interp_: the returned value
InterpValue(tb, x) ==
    IF x <= At(tb.xp, 0) THEN At(tb.yp, 0)
    ELSE IF x >= Last(tb.xp) THEN Last(tb.yp)
    ELSE Segment(tb.xp, tb.yp, Scan(tb.xp, x, ScanStart(tb)), x)

\* Table._interp_: self.cursor after the call
CursorAfter(tb, x) ==
    IF tb.kind = "Pwl" \/ x <= At(tb.xp, 0) \/ x >= Last(tb.xp) THEN tb.cursor
    ELSE Scan(tb.xp, x, ScanStart(tb))

\* Pwl(*time_voltage_pairs)
NewPwl(xp, yp) ==
    /\ table' = [kind |-> "Pwl", xp |-> xp, yp |-> yp, cursor |-> 0]
    /\ query' = [asked |-> FALSE, x |-> 0, out |-> 0]
    /\ UNCHANGED <<regvars, devvars, simvars, startvars, sensevars,
                   qdlvars>>

\* Table(*pairs)
NewTable(xp, yp) ==
    /\ table' = [kind |-> "Table", xp |-> xp, yp |-> yp, cursor |-> 0]
    /\ query' = [asked |-> FALSE, x |-> 0, out |-> 0]
    /\ UNCHANGED <<regvars, devvars, simvars, startvars, sensevars,
                   qdlvars>>

\* Pwl.step -> _interp_(x) / Table.output(x) -> _interp_(x)
Interp(x) ==
    /\ table.kind # "none"
    /\ query' = [asked |-> TRUE, x |-> x, out |-> InterpValue(table, x)]
    /\ table' = [table EXCEPT !.cursor = CursorAfter(table, x)]
    /\ UNCHANGED <<regvars, devvars, simvars, startvars, sensevars,
                   qdlvars>>

\* ----------------------------------------------------------- current sensor
\* An L, S or E device is [kind, name, nodes, port2node, connected]; nodes are
\* the node names its constructor was given, port2node maps a port number to
\* a node index once connect has run (None before).
NoSensor ==
    [kind |-> "none", name |-> "none", nodes |-> <<>>, port2node |-> <<>>,
     connected |-> FALSE]

NoCurrentNode ==
    [asked |-> FALSE, connected |-> FALSE, index |-> -1, name |-> "none",
     sign |-> 0, error |-> "none"]

\* devices a netlist author may construct: an inductor, an inductor with a
\* link node, a switch and a controlled source
SensorInputs ==
    {<<"L1", "L", <<"a", "0">>>>, <<"L2", "L", <<"a", "0", "b">>>>,
     <<"S1", "S", <<"a", "0", "a", "0">>>>, <<"E1", "E", <<"a", "0", "a", "0">>>>}

\* connect() asks create_internal for a node (L without link node, S, E)
HasInternal(d) == d.kind \in {"S", "E"} \/ (d.kind = "L" /\ Len(d.nodes) = 2)

\* the port connect() gives the internal node: 2 in L, 4 in S and E
InternalPort(d) == IF d.kind = "L" THEN 2 ELSE 4

RECURSIVE ResolveAll(_, _, _)
\* get_node_index for each name in turn: the registry and node count after
ResolveAll(map, num, keys) ==
    IF keys = <<>> THEN [nodes |-> map, nodenum |-> num]
    ELSE ResolveAll(NodesAfterGet(map, num, Head(keys)),
                    NodenumAfterGet(map, num, Head(keys)), Tail(keys))

\* the port2node dict connect() builds: ports 0.. from get_node_index, the
\* internal port from create_internal (the container under src/ takes no
\* name for it)
Port2NodeAfterConnect(d, map, num) ==
    LET r == ResolveAll(map, num, d.nodes)
    IN  [j \in 0..(IF HasInternal(d) THEN Len(d.nodes) ELSE Len(d.nodes) - 1) |->
            IF j < Len(d.nodes) THEN r.nodes[At(d.nodes, j)]
            ELSE (r.nodenum + 1) - 1]

\* L.get_current_node returns self.port2node[2]; S and E return self.nodes[4],
\* an entry of the list of node names the constructor was given
CurrentNode(d) ==
    IF d.kind = "L"
    THEN IF d.connected
         THEN [asked |-> TRUE, connected |-> d.connected, index |-> d.port2node[2],
               name |-> "none", sign |-> 1, error |-> "none"]
         ELSE [asked |-> TRUE, connected |-> d.connected, index |-> -1,
               name |-> "none", sign |-> 0, error |-> "TypeError"]
    ELSE IF Len(d.nodes) > 4
         THEN [asked |-> TRUE, connected |-> d.connected, index |-> -1,
               name |-> At(d.nodes, 4), sign |-> 1, error |-> "none"]
         ELSE [asked |-> TRUE, connected |-> d.connected, index |-> -1,
               name |-> "none", sign |-> 0, error |-> "IndexError"]

\* netlist.device(name, L(nodes, ...)) and the like
NewSensor(name, kind, nodes_) ==
    /\ pc = "build"
    /\ sensor' = [kind |-> kind, name |-> name, nodes |-> nodes_,
                  port2node |-> <<>>, connected |-> FALSE]
    /\ cur' = NoCurrentNode
    /\ UNCHANGED <<regvars, devvars, simvars, startvars, interpvars,
                   qdlvars>>

\* L.connect / S.connect / E.connect
Connect ==
    LET r == ResolveAll(nodes, nodenum, sensor.nodes)
        front == ResolveAll(nodes, nodenum,
                            SubSeq(sensor.nodes, 1, Len(sensor.nodes) - 1))
    IN  /\ pc = "build"
        /\ sensor.kind # "none"
        /\ ~sensor.connected
        /\ r.nodenum + (IF HasInternal(sensor) THEN 1 ELSE 0) <= MaxNodes
        /\ sensor' = [sensor EXCEPT
                         !.port2node = Port2NodeAfterConnect(sensor, nodes, nodenum),
                         !.connected = TRUE]
        /\ first_idx' = [x \in (DOMAIN first_idx) \cup Range(sensor.nodes) |->
                            IF x \in DOMAIN first_idx THEN first_idx[x]
                            ELSE r.nodes[x]]
        /\ IF HasInternal(sensor)
           THEN /\ nodes' = NodesAfterInternal(r.nodes, r.nodenum, internalnum)
                /\ nodenum' = r.nodenum + 1
                /\ internalnum' = internalnum + 1
                /\ internal_idx' = internal_idx \cup {nodenum' - 1}
                /\ ret' = [op |-> "create_internal",
                           key |-> InternalKey(internalnum' - 1),
                           val |-> nodenum' - 1,
                           fresh |-> (nodenum' - 1) \notin Range(r.nodes),
                           collided |-> InternalKey(internalnum' - 1) \in DOMAIN r.nodes]
           ELSE /\ nodes' = r.nodes
                /\ nodenum' = r.nodenum
                /\ ret' = [op |-> "get_node_index", key |-> Last(sensor.nodes),
                           val |-> r.nodes[Last(sensor.nodes)],
                           fresh |-> r.nodes[Last(sensor.nodes)] \notin Range(front.nodes),
                           collided |-> FALSE]
                /\ UNCHANGED <<internalnum, internal_idx>>
        /\ UNCHANGED <<cur, devvars, simvars, startvars, interpvars,
                   qdlvars>>

\* the R, C and L devices a netlist author may register: name, kind, node
\* names, value, series resistance (L only)
PartInputs ==
    {<<"R1", "R", <<"a", "gnd">>, 1, 0>>, <<"R2", "R", <<"gnd", "a">>, 0, 0>>,
     <<"C1", "C", <<"gnd", "a">>, 2, 0>>, <<"L1", "L", <<"a", "gnd">>, 2, 1>>}

PartNames == {d[1] : d \in PartInputs}

\* MNADevice.__init__: local arrays of nodes plus internal nodes, zeroed
NewPartRecord(kind, nodes_, value, res) ==
    LET d == [kind |-> kind, nodes |-> nodes_]
        np == Len(nodes_) + (IF HasInternal(d) THEN 1 ELSE 0)
    IN  [kind |-> kind, value |-> value, res |-> res, nodes |-> nodes_,
         port2node |-> Port2NodeAfterConnect(d, nodes, nodenum),
         jac |-> ZeroMatrix(np), bequiv |-> Zeros(np), started |-> FALSE]

\* netlist.device(name, R(nodes, value)) and the like, with the device's
\* connect()
NewPart(name, kind, nodes_, value, res) ==
    LET d == [kind |-> kind, nodes |-> nodes_]
        r == ResolveAll(nodes, nodenum, nodes_)
    IN  /\ pc = "build"
        /\ name \notin DOMAIN parts
        /\ r.nodenum + (IF HasInternal(d) THEN 1 ELSE 0) <= MaxNodes
        /\ parts' = Bind(parts, name, NewPartRecord(kind, nodes_, value, res))
        /\ IF HasInternal(d)
           THEN /\ nodes' = NodesAfterInternal(r.nodes, r.nodenum, internalnum)
                /\ nodenum' = r.nodenum + 1
                /\ internalnum' = internalnum + 1
                /\ internal_idx' = internal_idx \cup {nodenum' - 1}
           ELSE /\ nodes' = r.nodes
                /\ nodenum' = r.nodenum
                /\ UNCHANGED <<internalnum, internal_idx>>
        /\ first_idx' = [x \in (DOMAIN first_idx) \cup Range(nodes_) |->
                            IF x \in DOMAIN first_idx THEN first_idx[x]
                            ELSE r.nodes[x]]
        /\ UNCHANGED <<ret, devvars, maxitr, across, across_last,
                       across_history, converged, success, k, solve_error,
                       cause, pc, n, i, tstep, t, trans_time, trans_data,
                       aborted, failed_at, flatten_error, dangling, flat_src,
                       tmax, step_calls, hooks, jac, bequiv, stamped, unitvars, qdlvars>>

\* device.get_current_node()
GetCurrentNode ==
    /\ sensor.kind # "none"
    /\ cur' = CurrentNode(sensor)
    /\ UNCHANGED <<sensor, regvars, devvars, simvars, startvars, interpvars,
                   qdlvars>>

\* ----------------------------------------------------------- specifications
Init ==
    /\ nodes = [x \in GroundKeys |-> 0]
    /\ nodenum = 1
    /\ internalnum = 0
    /\ ret = [op |-> "none", key |-> "none", val |-> 0, fresh |-> FALSE,
              collided |-> FALSE]
    /\ internal_idx = {}
    /\ first_idx = <<>>
    /\ devices = <<>>
    /\ subckts = <<>>
    /\ subckt_instances = <<>>
    /\ circ_devices = <<>>
    /\ reg = [container |-> "none", name |-> "none", dup |-> FALSE,
              result |-> "none", changed |-> FALSE]
    /\ maxitr \in 1..MaxItr
    /\ across = <<>>
    /\ across_last = <<>>
    /\ across_history = <<>>
    /\ converged = FALSE
    /\ success = TRUE
    /\ k = 0
    /\ solve_error = FALSE
    /\ cause = "none"
    /\ pc = "build"
    /\ n = 0
    /\ i = 0
    /\ tstep = 0
    /\ t = 0
    /\ trans_time = <<>>
    /\ trans_data = <<>>
    /\ aborted = FALSE
    /\ failed_at = -1
    /\ flatten_error = "none"
    /\ dangling = {}
    /\ flat_src = <<>>
    /\ tmax = 0
    /\ step_calls = <<>>
    /\ hooks = [flatten |-> 0, start |-> 0, post_step |-> 0]
    /\ parts = <<>>
    /\ jac = <<>>
    /\ bequiv = <<>>
    /\ stamped = FALSE
    /\ broadcast_to = [a \in QAtoms |-> {}]
    /\ triggered = [a \in QAtoms |-> FALSE]
    /\ qpc = "idle"
    /\ qi = 0
    /\ models = <<>>
    /\ dev = NoDevice
    /\ evals = <<>>
    /\ table = NoTable
    /\ query = [asked |-> FALSE, x |-> 0, out |-> 0]
    /\ sensor = NoSensor
    /\ cur = NoCurrentNode

\* netlist construction: node and device registration
NextBuild ==
    \/ \E key \in UserKeys : GetNodeIndex(key)
    \/ CreateInternal
    \/ \E d \in DeviceInputs : Device(d[1], d[2])
    \/ \E d \in DeviceInputs : Add(d[1], d[2])
    \/ \E s \in SubcktNames : Subckt(s)
    \/ \E s \in SubcktNames : \E d \in DefDeviceInputs : DefDevice(s, d[1], d[2])

SpecBuild == Init /\ [][NextBuild]_vars

\* the node registry alone, asked for every ground alias as well
NextRegistry ==
    \/ \E key \in UserKeys \cup GroundKeys : GetNodeIndex(key)
    \/ CreateInternal

SpecRegistry == Init /\ [][NextRegistry]_vars

\* registration of models, construction and start of a diode or a switch
NextStart ==
    \/ \E m \in ModelNames : \E ps \in ModelParamInputs : Model(m, ps)
    \/ \E m \in ModelNames \cup {"nomodel"} : \E kw \in KeywordInputs : NewD(m, kw)
    \/ \E m \in ModelNames \cup {"nomodel"} : \E byname \in BOOLEAN :
          \E on \in BOOLEAN : \E kw \in KeywordInputs : NewS(m, byname, on, kw)
    \/ Start

SpecStart == Init /\ [][NextStart]_vars

\* a switch: construction, start and the evaluations of its control signal
NextSwitch ==
    \/ \E m \in ModelNames : \E ps \in SwitchParamInputs : Model(m, ps)
    \/ \E m \in ModelNames \cup {"nomodel"} : \E byname \in BOOLEAN :
          \E on \in BOOLEAN : \E kw \in KeywordInputs : NewS(m, byname, on, kw)
    \/ Start
    \/ \E c \in Controls : SMinorStep(c)

SpecSwitch == Init /\ [][NextSwitch]_vars

\* construction of a stimulus or table and any sequence of queries
NextInterp ==
    \/ \E xp \in XpInputs : \E yp \in YpInputs(xp) : NewPwl(xp, yp)
    \/ \E xp \in XpInputs : \E yp \in YpInputs(xp) : NewTable(xp, yp)
    \/ \E x \in Queries : Interp(x)

SpecInterp == Init /\ [][NextInterp]_vars

SimKeys == {"a"}

\* node registration, construction and connection of a device with a branch
\* current, and the query for its current node
NextSense ==
    \/ \E key \in SimKeys : GetNodeIndex(key)
    \/ CreateInternal
    \/ \E d \in SensorInputs : NewSensor(d[1], d[2], d[3])
    \/ Connect
    \/ GetCurrentNode

SpecSense == Init /\ [][NextSense]_vars

\* construction followed by a transient run
Next ==
    \/ \E key \in SimKeys : GetNodeIndex(key)
    \/ \E d \in DeviceInputs \cup InstanceInputs : Device(d[1], d[2])
    \/ \E s \in SubcktNames : Subckt(s)
    \/ \E s \in SubcktNames : \E d \in DefDeviceInputs : DefDevice(s, d[1], d[2])
    \/ \E ts \in 1..2 : \E tstop \in 0..MaxTstop : Trans(ts, tstop)
    \/ StepBegin
    \/ MinorStep
    \/ StepEnd
    \/ AfterStep

Spec == Init /\ [][Next]_vars

\* one netlist taken through several transient runs
NextRuns ==
    \/ \E d \in DeviceInputs : Device(d[1], d[2])
    \/ \E s \in SubcktNames : Subckt(s)
    \/ \E tstop \in 0..MaxTstop : Trans(1, tstop)
    \/ \E tstop \in 0..MaxTstop : TransAgain(1, tstop)
    \/ StepBegin
    \/ MinorStep
    \/ StepEnd
    \/ AfterStep

SpecRuns == Init /\ [][NextRuns]_vars

\* a netlist of R, C and L devices taken through a run
NextStamp ==
    \/ \E d \in PartInputs : NewPart(d[1], d[2], d[3], d[4], d[5])
    \/ \E ts \in 1..2 : \E tstop \in 0..1 : Trans(ts, tstop)
    \/ \E nm \in PartNames : PartStep(nm)
    \/ Stamp
    \/ StepBegin
    \/ MinorStep
    \/ StepEnd
    \/ AfterStep

SpecStamp == Init /\ [][NextStamp]_vars

\* the QDL scheduler: connections between atoms and calls of advance
NextQdl ==
    \/ \E a \in QAtoms : \E b \in QAtoms : AddConnection(a, b)
    \/ \E due \in SUBSET QAtoms : \E ch \in Changes : AdvanceBegin(due, ch)
    \/ \E ch \in Changes : CascadePass(ch)
    \/ AdvanceReturn

SpecQdl == Init /\ [][NextQdl]_vars

\* ------------------------------------------------------------------ claims

\* C1: a step whose Newton loop used all maxitr iterations without any
\* iteration meeting the convergence test is reported to its caller as failed.
C1_CapReportedAsFailure ==
    (pc = "stepret" /\ k = maxitr /\ ~converged /\ ~solve_error) => ~success

\* C2: when the linear solve fails in a Newton iteration, no further iteration
\* runs in that step: the only thing the step does next is return, with the
\* iteration count and across as the failing iteration left them, and it
\* returns failure.
C2_SolveFailureAbortsStep ==
    [][(pc = "newton" /\ solve_error)
         => (pc' = "stepret" /\ k' = k /\ across' = across /\ ~success')]_vars

\* C2 witness: a step returned after its second iteration's solve failed.
C2_Witness ==
    pc = "stepret" /\ solve_error /\ k = 1 /\ ~success /\ nodenum = 2

\* C3: once the Newton solve of step i has failed (solve error, or iteration
\* cap without convergence), no later step runs and simulated time stays at
\* the failed step.
C3_RunStopsAtFailedStep ==
    failed_at # -1 =>
        /\ (pc \in {"newton", "stepret"} => i = failed_at)
        /\ t <= failed_at * tstep

C5_GroundIsZero ==
    pc # "build" => across[0] = 0

\* C5 witness: a step with a successful iteration that solved a nonzero value
\* followed by an iteration whose solve failed.
C5_Witness ==
    pc = "stepret" /\ solve_error /\ k = 1 /\ nodenum = 2 /\ across[1] # 0

\* C6: a name keeps the index its first get_node_index returned: every later
\* get_node_index returns it and the registry never rebinds the name.
C6_IndexStable ==
    /\ \A key \in DOMAIN first_idx : nodes[key] = first_idx[key]
    /\ ret.op = "get_node_index" => ret.val = first_idx[ret.key]

\* C7: create_internal returns an index no name had before, and
\* get_node_index never returns the index of an internal node.
C7_InternalNeverAliased ==
    /\ ret.op = "create_internal" => ret.fresh
    /\ ret.op = "get_node_index" => ret.val \notin internal_idx

C9_DuplicateFailsLoudly ==
    reg.dup => (reg.result \notin {"True", "None"} /\ ~reg.changed)

\* C10: flattening a netlist with an X instance whose definition is not
\* registered raises an "undefined subcircuit" error and no step is run.
C10_UndefinedSubcktRejected ==
    dangling # {} => (flatten_error = "undefined subcircuit" /\ pc = "error")

\* the X instances of the netlist handed to flatten
Instances == {x \in DOMAIN flat_src : IsX(flat_src[x])}

\* the flattened devices stored under a name mangled with instance s
InstanceKeys(s) ==
    {x \in DOMAIN devices :
        \E d \in (DOMAIN devices) \cup (DOMAIN flat_src) : x = Mangle(s, d)}

\* the node references of flattened device x that instance s did not supply
\* (ground is global)
InternalRefs(s, x) ==
    Range(devices[x].nodes) \ (Range(flat_src[s].nodes) \cup GroundKeys)

\* C11: after flatten, two different instances share no internal node and no
\* device: the devices stored under their mangled names have different names
\* and disjoint sets of internal node references.
C11_InstancesDisjoint ==
    pc # "build" =>
        \A s1 \in Instances : \A s2 \in Instances \ {s1} :
            \A x1 \in InstanceKeys(s1) : \A x2 \in InstanceKeys(s2) :
                /\ devices[x1].name # devices[x2].name
                /\ InternalRefs(s1, x1) \cap InternalRefs(s2, x2) = {}

\* the node a reference of a definition's device is bound to in instance s:
\* the node the instance supplies for a port, a mangled name otherwise
BoundNode(s, ref) ==
    LET ports == SubcktPorts(flat_src[s].defn)
    IN  IF \E j \in DOMAIN ports : ports[j] = ref
        THEN flat_src[s].nodes[CHOOSE j \in DOMAIN ports : ports[j] = ref]
        ELSE Mangle(s, ref)

\* C12: after flatten, every device of the definition of every instance is
\* present under its mangled name, its port references bound to the nodes the
\* instance supplies and its other references to names mangled with the
\* instance.
C12_ClonesBound ==
    pc # "build" =>
        \A s \in Instances \ dangling :
            \A d \in DOMAIN subckts[flat_src[s].defn] :
                /\ Mangle(s, d) \in DOMAIN devices
                /\ devices[Mangle(s, d)].nodes =
                      [j \in DOMAIN subckts[flat_src[s].defn][d].nodes |->
                          BoundNode(s, subckts[flat_src[s].defn][d].nodes[j])]

\* C13: every ground alias is bound to index 0 at all times, and a
\* get_node_index call for a ground alias returns 0 and leaves the registry
\* and the node count as they were, whatever else has been registered.
C13_GroundAliasesResolveToZero ==
    /\ [](\A g \in {"0", "ground", "gnd"} : g \in DOMAIN nodes /\ nodes[g] = 0)
    /\ [][(ret' # ret /\ ret'.op = "get_node_index"
             /\ ret'.key \in {"0", "ground", "gnd"})
            => (ret'.val = 0 /\ nodes' = nodes /\ nodenum' = nodenum)]_vars

\* C13 witness: "ground" resolved to 0 after a user node and an internal node
\* were registered.
C13_Witness ==
    /\ ret.op = "get_node_index" /\ ret.key = "ground" /\ ret.val = 0
    /\ "a" \in DOMAIN nodes /\ internal_idx # {} /\ nodenum = 3

\* C14: a run that ended without an aborted step made exactly
\* n = floor(tstop / tstep) + 1 calls of the Newton step, call j at time
\* j * tstep; its time vector has n entries and its data matrix n columns of
\* one entry per node, column j being across as step j left it.
C14_RunRecordsEveryStep ==
    (pc = "done" /\ ~aborted) =>
        /\ (n - 1) * tstep <= tmax /\ tmax < n * tstep
        /\ Len(step_calls) = n
        /\ \A j \in 1..n : step_calls[j].t = (j - 1) * tstep
        /\ DOMAIN trans_time = 0..(n - 1)
        /\ DOMAIN trans_data = 0..(n - 1)
        /\ \A j \in 0..(n - 1) :
              /\ DOMAIN trans_data[j] = 0..(nodenum - 1)
              /\ trans_data[j] = step_calls[j + 1].across

\* C14 witness: a finished run of two steps over two nodes whose columns
\* differ.
C14_Witness ==
    /\ pc = "done" /\ ~aborted /\ tstep = 1 /\ tmax = 1 /\ n = 2 /\ nodenum = 2
    /\ trans_data[0][1] # trans_data[1][1]

\* the built-in defaults of the device's class
Defaults(d) == IF d.kind = "D" THEN DDefaults ELSE SDefaults

\* the parameters of the Model a device is associated with: the object it
\* holds, or the registered model of the name it was given
AssociatedParams(d) ==
    IF d.model.type = "Model" THEN d.model.params ELSE models[d.mname]

\* a start call of the device under construction
Starting == dev.kind # "none" /\ ~dev.started /\ dev'.started

\* C15: start of a device whose model name is registered raises nothing and
\* leaves every working parameter at the instance keyword's value if one was
\* given, else at the Model's value if the Model defines it, else at the
\* built-in default.
C15_OverrideOrder ==
    [][(Starting /\ dev.mname \in DOMAIN models) =>
         /\ dev'.error = "none"
         /\ \A key \in DOMAIN dev'.attrs :
               dev'.attrs[key] =
                  IF key \in DOMAIN dev.parameters THEN dev.parameters[key]
                  ELSE IF key \in DOMAIN AssociatedParams(dev)
                       THEN AssociatedParams(dev)[key]
                       ELSE Defaults(dev)[key]]_vars

\* C16: start of a device whose model name is not registered raises nothing
\* and leaves every working parameter at its built-in default (or at the
\* instance keyword's value where one was given).
C16_UnknownModelUsesDefaults ==
    [][(Starting /\ dev.mname \notin DOMAIN models) =>
         /\ dev'.error = "none"
         /\ \A key \in DOMAIN dev'.attrs :
               dev'.attrs[key] =
                  IF key \in DOMAIN dev.parameters THEN dev.parameters[key]
                  ELSE Defaults(dev)[key]]_vars

\* the segment of the table that contains x: the least index j >= 1 with
\* x <= xp[j]
SegmentOf(xp, x) ==
    CHOOSE j \in 1..(Len(xp) - 1) :
        /\ x <= At(xp, j)
        /\ \A m \in 1..(j - 1) : x > At(xp, m)

\* linear interpolation on the containing segment, clamped outside the table
Reference(xp, yp, x) ==
    IF x <= At(xp, 0) THEN At(yp, 0)
    ELSE IF x >= Last(xp) THEN Last(yp)
    ELSE Segment(xp, yp, SegmentOf(xp, x), x)

\* C17: whatever was asked before, every query returns the linear
\* interpolation on the segment that contains the value asked, clamped to the
\* end values outside the table.
C17_InterpIndependentOfHistory ==
    query.asked => query.out = Reference(table.xp, table.yp, query.x)

\* C18: get_current_node of a connected device that has an internal
\* branch-current node returns without error a pair (index, sign) whose index
\* is the global index connect() obtained for that internal node.
C18_CurrentNodeIsInternalIndex ==
    (cur.asked /\ cur.connected /\ HasInternal(sensor)) =>
        /\ cur.error = "none"
        /\ cur.index = sensor.port2node[InternalPort(sensor)]
        /\ cur.index \in internal_idx
        /\ cur.sign \in {1, 0 - 1}

\* C19: across_history changes only when a step's Newton solve has ended in
\* success with convergence, and then it becomes the converged across; while
\* the iterations run and when the step fails it stays as the previous
\* completed step left it.
C19_HistoryOnlyOnSuccess ==
    [][(pc # "build" /\ across_history' # across_history) =>
         /\ pc = "newton" /\ pc' = "stepret"
         /\ success' /\ converged /\ ~solve_error
         /\ across_history' = across]_vars

\* C20: a step never makes more than maxitr minor iterations (k counts the
\* iterations that solved, a failed solve ends the step), and once an
\* iteration has declared convergence the step only returns.
C20_StepBounded ==
    /\ [](k + (IF solve_error THEN 1 ELSE 0) <= maxitr)
    /\ [][(pc = "newton" /\ converged) => (pc' = "stepret" /\ k' = k)]_vars

\* C20 witness: a step that returned after maxitr iterations without
\* convergence, and the run went on.
C20_Witness ==
    pc = "stepret" /\ k = maxitr /\ maxitr = 2 /\ ~converged /\ ~solve_error

\* a minor_step call of the switch
Evaluating == Len(evals') = Len(evals) + 1

\* C21: a switch is in its configured state from construction and after
\* start; an evaluation turns an OFF switch ON exactly when control >= vt, an
\* ON switch OFF exactly when control < vt, and otherwise leaves the state.
C21_SwitchStateMachine ==
    /\ []((dev.kind = "S" /\ evals = <<>>) => dev.state = dev.on)
    /\ [][Evaluating =>
            LET c == Last(evals').control
            IN  dev'.state =
                   IF ~dev.state /\ c >= dev.attrs.vt THEN TRUE
                   ELSE IF dev.state /\ c < dev.attrs.vt THEN FALSE
                   ELSE dev.state]_vars

\* C21 witness: a switch configured ON with threshold 3 that an evaluation
\* below the threshold turned OFF and one at the threshold turned ON again.
C21_Witness ==
    /\ dev.kind = "S" /\ dev.on /\ dev.attrs.vt = 3 /\ Len(evals) = 2
    /\ evals[1].control = 2 /\ ~evals[1].after
    /\ evals[2].control = 3 /\ evals[2].after

\* the evaluations so far are a sweep: strictly increasing controls, the
\* first below and the last at or above the threshold
IsSweep ==
    /\ dev.kind = "S" /\ dev.attrs.vh = 0 /\ Len(evals) >= 2
    /\ \A j \in 1..(Len(evals) - 1) : evals[j].control < evals[j + 1].control
    /\ evals[1].control < dev.attrs.vt
    /\ Last(evals).control >= dev.attrs.vt

\* the evaluations that turned the switch ON
TurnOns == {j \in 1..Len(evals) : ~evals[j].before /\ evals[j].after}

\* C22: over a sweep the switch turns ON exactly once and is ON after every
\* later evaluation of the sweep.
C22_SweepTurnsOnOnce ==
    IsSweep =>
        /\ Cardinality(TurnOns) = 1
        /\ \A j \in TurnOns : \A m \in j..Len(evals) : evals[m].after

\* C22 witness: a sweep of three evaluations that crossed the threshold at
\* the second, starting from a switch configured ON.
C22_Witness ==
    /\ IsSweep /\ dev.on /\ Len(evals) = 3 /\ TurnOns = {2}
    /\ evals[3].control > dev.attrs.vt

\* C28: once start has returned, and after every minor_step, jac[4, 4] is
\* -ron when the switch is ON and -roff when it is OFF.
C28_EntryFollowsState ==
    (dev.kind = "S" /\ dev.started /\ dev.error = "none") =>
        dev.jac44 = IF dev.state THEN 0 - dev.attrs.ron ELSE 0 - dev.attrs.roff

\* C28 witness: a started switch that two evaluations turned ON and OFF
\* again.
C28_Witness ==
    /\ dev.kind = "S" /\ dev.started /\ dev.error = "none" /\ ~dev.on
    /\ Len(evals) = 2 /\ evals[1].after /\ ~evals[2].after
    /\ dev.jac44 = 0 - ROFF

\* C23: over any sequence of operations with one or more transient runs
\* flatten is performed exactly once, and before any device is started.
C23_FlattenedOnce ==
    /\ hooks.flatten <= 1
    /\ pc # "build" => hooks.flatten = 1
    /\ hooks.start > 0 => hooks.flatten >= 1

\* C24: when a timestep of a run has completed (its Newton solve succeeded
\* and the loop moved on), post_step has been called once per device for
\* every completed timestep.
C24_PostStepEveryTimestep ==
    (pc \in {"loop", "done"} /\ ~aborted) =>
        hooks.post_step = i * Cardinality(DOMAIN devices)

\* C25: a device hook leaves the global Jacobian, the global b-equivalent,
\* across, across_last and across_history as they were and writes the local
\* arrays of its own device only.
C25_HooksLeaveGlobals ==
    [][(pc' = pc /\ DOMAIN parts' = DOMAIN parts /\ parts' # parts)
         => /\ UNCHANGED <<jac, bequiv, across, across_last, across_history>>
            /\ Cardinality({nm \in DOMAIN parts : parts'[nm] # parts[nm]}) = 1]_vars

\* C25 witness: the step hook of a capacitor wrote a nonzero local
\* b-equivalent from a nonzero history, after the arrays were stamped.
C25_Witness ==
    /\ "C1" \in DOMAIN parts /\ parts["C1"].bequiv[0] # 0
    /\ ~stamped /\ jac # <<>> /\ \E j \in DOMAIN across_history : across_history[j] # 0

\* the local Jacobian entries that device port pairs map to cell c
JacTerms(c) ==
    {<<nm, lc>> \in (DOMAIN parts) \X ((0..2) \X (0..2)) :
        /\ lc \in DOMAIN parts[nm].jac
        /\ parts[nm].port2node[lc[1]] = c[1]
        /\ parts[nm].port2node[lc[2]] = c[2]}

\* the local b-equivalent entries that device ports map to node j
BequivTerms(j) ==
    {<<nm, lp>> \in (DOMAIN parts) \X (0..2) :
        lp \in DOMAIN parts[nm].bequiv /\ parts[nm].port2node[lp] = j}

RECURSIVE SumJacTerms(_)
SumJacTerms(terms) ==
    IF terms = {} THEN 0
    ELSE LET x == CHOOSE y \in terms : TRUE
         IN  parts[x[1]].jac[x[2]] + SumJacTerms(terms \ {x})

RECURSIVE SumBequivTerms(_)
SumBequivTerms(terms) ==
    IF terms = {} THEN 0
    ELSE LET x == CHOOSE y \in terms : TRUE
         IN  parts[x[1]].bequiv[x[2]] + SumBequivTerms(terms \ {x})

\* C26: after a run of the stamp assembler every global Jacobian cell is the
\* sum of the local entries mapped to it and every global b-equivalent
\* entry is the sum of the local entries mapped to it, whatever the arrays
\* held before.
C26_StampIsSum ==
    stamped =>
        /\ \A c \in DOMAIN jac : jac[c] = SumJacTerms(JacTerms(c))
        /\ \A j \in DOMAIN bequiv : bequiv[j] = SumBequivTerms(BequivTerms(j))

\* C26 witness: a resistor and a capacitor across the same nodes, stamped again
\* after the capacitor's step hook wrote a nonzero b-equivalent.
C26_Witness ==
    /\ stamped /\ DOMAIN parts = {"R1", "C1"} /\ tstep = 1
    /\ jac[<<1, 1>>] = 3 /\ jac[<<1, 0>>] = 0 - 3
    /\ bequiv[1] # 0

RECURSIVE RowSum(_, _, _)
\* the sum of row r of a local Jacobian over columns 0..j
RowSum(p, r, j) ==
    IF j < 0 THEN 0 ELSE p.jac[<<r, j>>] + RowSum(p, r, j - 1)

\* the last port of a device, internal node included
LastPort(p) == Cardinality(DOMAIN p.bequiv) - 1

\* C27 as stated: after start every terminal row of the local Jacobian of
\* an R, C or L device sums to zero.
C27_PortRowsSumToZero ==
    \A nm \in DOMAIN parts :
        parts[nm].started =>
            \A r \in 0..(Len(parts[nm].nodes) - 1) :
                RowSum(parts[nm], r, LastPort(parts[nm])) = 0

\* C27 amended: after start the terminal rows of a resistor and a capacitor
\* sum to zero; the terminal rows of an inductor sum to +1 and -1, the
\* coupling to its branch current, and cancel column by column.
C27_TerminalRowsBalance ==
    \A nm \in DOMAIN parts :
        LET p == parts[nm]
        IN  p.started =>
              IF p.kind = "L"
              THEN /\ RowSum(p, 0, LastPort(p)) = 1
                   /\ RowSum(p, 1, LastPort(p)) = 0 - 1
                   /\ \A j \in 0..LastPort(p) : p.jac[<<0, j>>] + p.jac[<<1, j>>] = 0
              ELSE \A r \in 0..1 : RowSum(p, r, LastPort(p)) = 0

\* C27 witness: a started inductor beside a started resistor of nonzero
\* conductance.
C27_Witness ==
    /\ DOMAIN parts = {"R1", "L1"}
    /\ parts["R1"].started /\ parts["R1"].jac[<<0, 0>>] = 1
    /\ parts["L1"].started /\ parts["L1"].jac[<<2, 2>>] = 0 - 3

\* C29: the node indices assigned to names are exactly 0..nodenum-1, no two
\* distinct non-ground names share an index, and every assigned index is
\* below the dimension nodenum that setup gives the arrays.
C29_IndicesDense ==
    /\ Range(nodes) = 0..(nodenum - 1)
    /\ \A x, y \in DOMAIN nodes :
          (x # y /\ nodes[x] # 0 /\ nodes[y] # 0) => nodes[x] # nodes[y]
    /\ \A x \in DOMAIN nodes : nodes[x] < nodenum

\* C30: when System.advance returns no atom has its triggered flag set.
C30_NoneTriggeredOnReturn ==
    qpc = "returned" => \A a \in QAtoms : ~triggered[a]

====
